---------------------------- MODULE Spec2Model ----------------------------
(***************************************************************************)
(* Model of src/app.py, the Streamlit dashboard for ROV operations: the    *)
(* synthetic telemetry generator, the time-window filter of the sidebar    *)
(* and the rendering functions the script calls in order on every pass.    *)
(*                                                                         *)
(* Time is counted in seconds (datetime arithmetic is exact).  A float is  *)
(* an integer number of quanta of 1/Scale; arithmetic results are rounded  *)
(* by fl, IEEE-754 round-half-to-even on a binary grid whose spacing       *)
(* doubles with every binade, as numpy's float64 does.  float64 keeps 53   *)
(* significand bits; the model keeps 18 (TLC integers are 32 bits wide),   *)
(* so the quantum 2^-10 is the spacing of the floats in [128, 256), where  *)
(* float64 has 2^-45.                                                      *)
(***************************************************************************)
EXTENDS Integers, Sequences, FiniteSets

\* ------------------------------------------------------------- bounds
\* Largest num_records the generator is called with in the bounded checks.
MaxN == 3
\* Longest hand-made series given to the filter.
MaxLen == 3

\* ---------------------------------------------------- program constants
\* def _generate_sample_data(num_records: int = 120)
DefaultNumRecords == 120
\* timedelta(minutes=5 * i)
StrideMinutes == 5

\* "All data": None
NoWindow == -1

\* timedelta(minutes=...) in seconds
Minute == 60
Hour == 60 * Minute
Day == 24 * Hour

\* ------------------------------------------------------ float64 values
Scale == 2^10
\* Below ExactLimit quanta every multiple of the quantum is a float.
ExactLimit == 2^18

Abs(x) == IF x < 0 THEN -x ELSE x

Min(a, b) == IF a <= b THEN a ELSE b

Max(a, b) == IF a >= b THEN a ELSE b

\* Spacing of the floats around magnitude a (a >= 0), in quanta.
RECURSIVE Ulp(_)
Ulp(a) == IF a < ExactLimit THEN 1 ELSE 2 * Ulp(a \div 2)

\* num/den (den > 0) rounded to the nearest multiple of step, ties to the
\* even multiple; the result is that multiple times step.
RoundHalfEven(num, den, step) ==
    LET d == den * step
        q == num \div d
        r == num % d
    IN  IF 2 * r < d THEN q * step
        ELSE IF 2 * r > d THEN (q + 1) * step
        ELSE IF q % 2 = 0 THEN q * step ELSE (q + 1) * step

\* The float nearest to the exact value x (round-half-to-even).
fl(x) ==
    LET a == Abs(x)
        r == RoundHalfEven(a, 1, Ulp(a))
    IN  IF x < 0 THEN -r ELSE r

fadd(a, b) == fl(a + b)

\* The float nearest to num/den, for exact integers num and den > 0.
fdiv(num, den) ==
    LET a == Abs(num)
        q == a \div den
        r == RoundHalfEven(a, den, Ulp(q))
    IN  IF num < 0 THEN -r ELSE r

fmul(a, b) == fdiv(a * b, Scale)

\* C fmod: the remainder of the truncated division, with the sign of a.
fmod(a, b) == IF a < 0 THEN -((-a) % b) ELSE a % b

\* numpy's float remainder (the % of line 37), for b > 0: fmod, then the
\* divisor is added when the signs differ, in floating point.
remainder(a, b) ==
    LET m == fmod(a, b)
    IN  IF m # 0 /\ m < 0 THEN fadd(m, b) ELSE m

\* np.clip(x, lo, hi)
clip(x, lo, hi) == Min(Max(x, lo), hi)

\* np.linspace(start, stop, num)[i], i in 1..num (endpoint=True).
linspace(start, stop, num, i) ==
    IF num = 1 THEN start
    ELSE IF i = num THEN stop
    ELSE fadd(fl((i - 1) * fdiv(stop - start, num - 1)), start)

\* The running sums acc + steps[lo], ..., acc + steps[lo] + ... + steps[hi],
\* each addition made in floating point, from left to right (the recursion
\* halves the range; the order of the additions is kept).
RECURSIVE accumulate(_, _, _, _)
accumulate(acc, steps, lo, hi) ==
    IF lo > hi THEN <<>>
    ELSE IF lo = hi THEN <<fadd(acc, steps[lo])>>
    ELSE LET left == accumulate(acc, steps, lo, (lo + hi) \div 2)
         IN  left \o accumulate(left[Len(left)], steps, (lo + hi) \div 2 + 1, hi)

\* np.cumsum(steps)
cumsum(steps) ==
    IF Len(steps) = 0 THEN <<>>
    ELSE <<steps[1]>> \o accumulate(steps[1], steps, 2, Len(steps))

Reverse(s) == [i \in 1..Len(s) |-> s[Len(s) + 1 - i]]

Last(s) == s[Len(s)]

\* ------------------------------------------------------------- state
VARIABLES
    pc,            \* the statement of the script that runs next
    num_records,   \* argument of _generate_sample_data
    now,           \* datetime.utcnow() of the pass, in seconds
    selection,     \* value of the "Time range" radio
    minutes,       \* time_options[selection] as read by the last filter call
    frames,        \* the DataFrame objects: object id -> rows
    telemetry_df,  \* module global (line 67): an object id
    filtered_df,   \* module global (line 217): an object id
    formatted_df,  \* local of telemetry_table (line 196): an object id
    metrics,       \* what mission_overview displayed
    charts,        \* what plot_timeseries displayed
    gauge,         \* value of the power gauge of engineering_panel
    polar,         \* rows of the polar scatter of engineering_panel
    table,         \* rows st.dataframe displayed
    error,         \* the exception that ended the pass, or "None"
    minutes2,      \* window of the second filter call (filter harness)
    refiltered     \* rows returned by the second filter call

vars == <<pc, num_records, now, selection, minutes, frames, telemetry_df,
          filtered_df, formatted_df, metrics, charts, gauge, polar, table,
          error, minutes2, refiltered>>

ObjIds == {"df0", "df1", "df2"}

\* Instants the script is started at: on a minute and 42 s into one.
Nows == {2 * Day + 5 * Hour + 7 * Minute, 2 * Day + 5 * Hour + 7 * Minute + 42}

\* ------------------------------------------- _generate_sample_data
\* The float nearest to a decimal literal num/den.
Lit(num, den) == fdiv(num * Scale, den)

\* Outcomes of np.random.normal(0, sigma, num_records) the checks draw.
\* The running sum of the heading steps is what line 37 wraps; with few
\* records a long walk is compressed into steps of half a turn, one of
\* them a quantum longer.
DepthDraws == {-8 * Scale, 8 * Scale}

TemperatureDraws == {-(Scale \div 4), Scale \div 4}

PressureDraws == {5 * Scale}

PowerDraws == {-20 * Scale, 0, 25 * Scale}

HeadingDraws == {-(180 * Scale + 1), 0, 180 * Scale}

SpeedDraws == {-2 * Scale, 0, 2 * Scale}

\* Every vector of n draws from V.
AllVecs(n, V) == [1..n -> V]

\* The vectors of n draws from V that alternate between two of them.
AltVecs(n, V) == {[i \in 1..n |-> IF i % 2 = 1 THEN a ELSE b] : a \in V, b \in V}

NoNoise(n) == {[i \in 1..n |-> 0]}

\* Draws for the checks of the generator: power, heading and speed vary.
GenNoise(n) ==
    [depth : AltVecs(n, {8 * Scale}), temperature : NoNoise(n),
     pressure : AltVecs(n, PressureDraws), power : AltVecs(n, PowerDraws),
     heading : AllVecs(n, HeadingDraws), speed : AltVecs(n, SpeedDraws)]

\* Draws for the checks of a render pass: the fields of the deltas vary.
RenderNoise(n) ==
    [depth : AltVecs(n, DepthDraws), temperature : AltVecs(n, TemperatureDraws),
     pressure : AltVecs(n, PressureDraws), power : AltVecs(n, {-20 * Scale, 25 * Scale}),
     heading : NoNoise(n), speed : NoNoise(n)]

\* Mutant: the list is not reversed.
timestamps_unreversed(n, t) == [i \in 1..n |-> t - StrideMinutes * (i - 1) * Minute]

\* timestamps = [now - timedelta(minutes=5 * i) for i in range(n)][::-1]
timestamps(n, t) ==
    Reverse([i \in 1..n |-> t - StrideMinutes * (i - 1) * Minute])

\* "heading_deg": (180 + np.cumsum(steps)) % 360
heading_deg(steps) ==
    LET c == cumsum(steps)
    IN  [i \in DOMAIN steps |-> remainder(fadd(180 * Scale, c[i]), 360 * Scale)]

power_pct(draw) == clip(fadd(75 * Scale, draw), 60 * Scale, 95 * Scale)

speed_knots(draw) == clip(fadd(Lit(25, 10), draw), Lit(10, 10), Lit(35, 10))

base_depth(n, noise, i) == fadd(linspace(100 * Scale, 350 * Scale, n, i), noise.depth[i])

base_temperature(noise, i) ==
    fadd(fadd(4 * Scale, fl((i - 1) * Lit(5, 1000))), noise.temperature[i])

base_pressure(n, noise, i) ==
    fadd(fmul(Lit(13, 10), base_depth(n, noise, i)), noise.pressure[i])

\* The DataFrame of lines 30-40: row i carries the RangeIndex label i - 1.
sample_data(n, t, noise) ==
    LET ts == timestamps(n, t)
        heading == heading_deg(noise.heading)
    IN
    [i \in 1..n |->
        [index |-> i - 1,
         timestamp |-> ts[i],
         depth_m |-> base_depth(n, noise, i),
         temperature_c |-> base_temperature(noise, i),
         pressure_kpa |-> base_pressure(n, noise, i),
         power_pct |-> power_pct(noise.power[i]),
         heading_deg |-> heading[i],
         speed_knots |-> speed_knots(noise.speed[i])]]

\* Mutant: an empty request is refused as well.
generation_raises_below_one(n) == n < 1

\* np.linspace (line 26) raises ValueError for a negative num_records; zero
\* records make every array, and the frame, empty.
generation_raises(n) == n < 0

\* telemetry_df = _generate_sample_data(num_records), with the draws taken
\* from Noise.
generate_sample_data(Noise) ==
    /\ pc = "generate"
    /\ IF generation_raises(num_records)
       THEN /\ error' = "ValueError"
            /\ pc' = "raised"
            /\ UNCHANGED <<frames, telemetry_df>>
       ELSE /\ \E noise \in Noise :
                 frames' = [frames EXCEPT !["df0"] = sample_data(num_records, now, noise)]
            /\ telemetry_df' = "df0"
            /\ pc' = "filter"
            /\ UNCHANGED error
    /\ UNCHANGED <<num_records, now, selection, minutes, filtered_df, formatted_df,
                   metrics, charts, gauge, polar, table, minutes2, refiltered>>

\* Nothing displayed, nothing raised.
NothingShown ==
    /\ selection = "Last 3 hours"
    /\ formatted_df = "None"
    /\ metrics = <<>>
    /\ charts = <<>>
    /\ gauge = <<>>
    /\ polar = <<>>
    /\ table = <<>>
    /\ error = "None"
    /\ minutes2 = NoWindow
    /\ refiltered = <<>>

\* The state before the script has run.
Blank ==
    /\ NothingShown
    /\ frames = [o \in ObjIds |-> <<>>]
    /\ telemetry_df = "None"
    /\ filtered_df = "None"

\* ------------------------------------- the generator called on its own
InitGen ==
    /\ pc = "generate"
    /\ num_records \in -1..MaxN
    /\ now \in Nows
    /\ minutes = NoWindow
    /\ Blank

NextGen == generate_sample_data(GenNoise(num_records))

SpecGen == InitGen /\ [][NextGen]_vars

\* ------------------------------------------------------ sidebar_filters
TimeRanges == {"Last 30 minutes", "Last 1 hour", "Last 3 hours", "Last 6 hours", "All data"}

time_options ==
    [s \in TimeRanges |->
        CASE s = "Last 30 minutes" -> 30
          [] s = "Last 1 hour" -> 60
          [] s = "Last 3 hours" -> 180
          [] s = "Last 6 hours" -> 360
          [] s = "All data" -> NoWindow]

\* Mutant: the series is taken to be sorted, df["timestamp"].iloc[-1].
max_timestamp_of_last_row(df) == df[Len(df)].timestamp

\* df["timestamp"].max()
max_timestamp(df) ==
    CHOOSE t \in {df[i].timestamp : i \in DOMAIN df} :
        \A i \in DOMAIN df : df[i].timestamp <= t

\* Mutants of the mask: the sample on the cutoff is dropped; the comparison
\* is turned around.
in_window_strict(ts, limit) == ts > limit

in_window_inverted(ts, limit) == ts <= limit

\* The mask of line 84: df["timestamp"] >= cutoff, for one row.
in_window(ts, limit) == ts >= limit

\* Mutant: timedelta(seconds=m).
cutoff_seconds(df, m) == max_timestamp(df) - m

\* cutoff = df["timestamp"].max() - timedelta(minutes=m)
cutoff(df, m) == max_timestamp(df) - m * Minute

\* df[df["timestamp"] >= cutoff]: the rows of the mask, in order, each
\* with its index label.
\* On a frame without rows max() is NaT and the mask selects nothing.
filter_rows(df, m) ==
    IF Len(df) = 0 THEN <<>>
    ELSE LET c == cutoff(df, m)
             keep(row) == in_window(row.timestamp, c)
         IN  SelectSeq(df, keep)

\* The rows sidebar_filters returns for window m.
filtered_rows(df, m) == IF m = NoWindow THEN df ELSE filter_rows(df, m)

\* The object sidebar_filters returns: df itself for "All data", otherwise
\* the new frame the boolean indexing builds.
filtered_object(df_id, m) == IF m = NoWindow THEN df_id ELSE "df1"

\* filtered_df = sidebar_filters(telemetry_df), the window being m.
filter_call(m) ==
    /\ minutes' = m
    /\ filtered_df' = filtered_object(telemetry_df, m)
    /\ frames' = IF filtered_object(telemetry_df, m) = telemetry_df THEN frames
                 ELSE [frames EXCEPT ![filtered_object(telemetry_df, m)] =
                                         filtered_rows(frames[telemetry_df], m)]

sidebar_filters ==
    /\ pc = "filter"
    /\ filter_call(time_options[selection])
    /\ pc' = "overview"
    /\ UNCHANGED <<num_records, now, selection, telemetry_df, formatted_df, metrics,
                   charts, gauge, polar, table, error, minutes2, refiltered>>

\* ----------------------------------------------------- mission_overview
MISSION ==
    [mission_name |-> "Poseidon-7 Survey",
     pilot |-> "Casey Morgan",
     status |-> "Active",
     start_time |-> now - (3 * Hour + 27 * Minute)]

\* f"{x:.<d>f}": x rounded half-even to d decimals, in units of 10^-d.
fmt(x, d) ==
    LET a == RoundHalfEven(Abs(x) * 10^d, Scale, 1)
    IN  IF x < 0 THEN -a ELSE a

\* The four metrics of the expander (lines 91-97); the pass takes under a second.
mission_details(status) ==
    LET elapsed == (now - status.start_time) % Day
    IN  [mission |-> status.mission_name,
         status |-> status.status,
         elapsed_h |-> elapsed \div Hour,
         elapsed_m |-> (elapsed % Hour) \div Minute,
         pilot |-> status.pilot]

\* The four metrics of lines 110-114, for a frame of two rows or more.
metric_values(df) ==
    LET latest == df[Len(df)]
        previous == df[Len(df) - 1]
    IN  [depth |-> fmt(latest.depth_m, 0),
         depth_delta |-> fmt(fadd(latest.depth_m, -previous.depth_m), 1),
         temperature |-> fmt(latest.temperature_c, 1),
         temperature_delta |-> fmt(fadd(latest.temperature_c, -previous.temperature_c), 2),
         pressure |-> fmt(latest.pressure_kpa, 0),
         power |-> fmt(latest.power_pct, 0),
         power_delta |-> fmt(fadd(latest.power_pct, -previous.power_pct), 1)]

\* df.iloc[-1] (line 110) and df.iloc[-2] (line 111) raise IndexError when
\* the frame has no such row; the arguments of the first metric are
\* evaluated before anything is displayed.
overview_raises(df) == Len(df) < 2

mission_overview ==
    /\ pc = "overview"
    /\ IF overview_raises(frames[filtered_df])
       THEN /\ metrics' = [details |-> mission_details(MISSION), values |-> <<>>]
            /\ error' = "IndexError"
            /\ pc' = "raised"
       ELSE /\ metrics' = [details |-> mission_details(MISSION),
                            values |-> metric_values(frames[filtered_df])]
            /\ pc' = "plot"
            /\ UNCHANGED error
    /\ UNCHANGED <<num_records, now, selection, minutes, frames, telemetry_df, filtered_df,
                   formatted_df, charts, gauge, polar, table, minutes2, refiltered>>

\* ------------------------------------------------------ plot_timeseries
column(df, name) == [i \in DOMAIN df |-> df[i][name]]

plot_timeseries ==
    /\ pc = "plot"
    /\ charts' = [c \in {"depth_m", "temperature_c", "pressure_kpa"} |->
                     [x |-> column(frames[filtered_df], "timestamp"),
                      y |-> column(frames[filtered_df], c)]]
    /\ pc' = "panel"
    /\ UNCHANGED <<num_records, now, selection, minutes, frames, telemetry_df, filtered_df,
                   formatted_df, metrics, gauge, polar, table, error, minutes2, refiltered>>

\* ---------------------------------------------------- engineering_panel
\* df.tail(n)
tail(df, n) == SubSeq(df, Max(1, Len(df) - n + 1), Len(df))

\* value=df["power_pct"].iloc[-1]
gauge_value(df) == df[Len(df)].power_pct

engineering_panel ==
    /\ pc = "panel"
    /\ IF Len(frames[filtered_df]) = 0
       THEN /\ error' = "IndexError"
            /\ pc' = "raised"
            /\ UNCHANGED <<gauge, polar>>
       ELSE /\ gauge' = gauge_value(frames[filtered_df])
            /\ polar' = [i \in DOMAIN tail(frames[filtered_df], 60) |->
                            [r |-> tail(frames[filtered_df], 60)[i].speed_knots,
                             theta |-> tail(frames[filtered_df], 60)[i].heading_deg]]
            /\ pc' = "table"
            /\ UNCHANGED error
    /\ UNCHANGED <<num_records, now, selection, minutes, frames, telemetry_df, filtered_df,
                   formatted_df, metrics, charts, table, minutes2, refiltered>>

\* ------------------------------------------------------ telemetry_table
\* .dt.strftime("%Y-%m-%d %H:%M"): the date, the hour and the minute.
strftime(ts) ==
    [ymd |-> ts \div Day, hour |-> (ts % Day) \div Hour, minute |-> (ts % Hour) \div Minute]

columns ==
    [timestamp |-> "Timestamp",
     depth_m |-> "Depth (m)",
     temperature_c |-> "Temperature (°C)",
     pressure_kpa |-> "Pressure (kPa)",
     power_pct |-> "Power (%)",
     heading_deg |-> "Heading (°)",
     speed_knots |-> "Speed (kn)"]

\* One row after lines 197-209: the timestamp formatted, the columns renamed.
format_row(row) ==
    [c \in {"index"} \cup {columns[k] : k \in DOMAIN columns} |->
        IF c = "index" THEN row.index
        ELSE LET k == CHOOSE k \in DOMAIN columns : columns[k] = c
             IN  IF k = "timestamp" THEN strftime(row.timestamp) ELSE row[k]]

\* Mutant: formatted_df = df, the same object.
df_same_object(df_id) == df_id

\* formatted_df = df.copy(): a new object.
df_copy(df_id) == "df2"

telemetry_table ==
    /\ pc = "table"
    /\ formatted_df' = df_copy(filtered_df)
    /\ frames' = [frames EXCEPT ![df_copy(filtered_df)] =
                     [i \in DOMAIN frames[filtered_df] |-> format_row(frames[filtered_df][i])]]
    /\ table' = Reverse(tail(frames'[formatted_df'], 50))
    /\ pc' = "done"
    /\ UNCHANGED <<num_records, now, selection, minutes, telemetry_df, filtered_df,
                   metrics, charts, gauge, polar, error, minutes2, refiltered>>

\* ------------------------------------------------ the script, rerun
\* The user picks a time range: Streamlit runs the script again from the top.
select_time_range ==
    /\ pc \in {"done", "raised"}
    /\ selection' \in TimeRanges
    /\ now' \in {t \in Nows : t >= now}
    /\ pc' = "generate"
    /\ minutes' = NoWindow
    /\ frames' = [o \in ObjIds |-> <<>>]
    /\ telemetry_df' = "None"
    /\ filtered_df' = "None"
    /\ formatted_df' = "None"
    /\ metrics' = <<>>
    /\ charts' = <<>>
    /\ gauge' = <<>>
    /\ polar' = <<>>
    /\ table' = <<>>
    /\ error' = "None"
    /\ UNCHANGED <<num_records, minutes2, refiltered>>

\* A pass of the script, _generate_sample_data being given any num_records
\* of 1..MaxN (line 67 passes none, see InitShipped).
Init ==
    /\ pc = "generate"
    /\ num_records \in 1..MaxN
    /\ now \in Nows
    /\ minutes = NoWindow
    /\ Blank

Next ==
    \/ generate_sample_data(RenderNoise(num_records))
    \/ sidebar_filters
    \/ mission_overview
    \/ plot_timeseries
    \/ engineering_panel
    \/ telemetry_table
    \/ select_time_range

Spec == Init /\ [][Next]_vars

\* The dashboard as shipped: telemetry_df = _generate_sample_data().
InitShipped ==
    /\ pc = "generate"
    /\ num_records = DefaultNumRecords
    /\ now \in Nows
    /\ minutes = NoWindow
    /\ Blank

SpecShipped == InitShipped /\ [][Next]_vars

\* ---------------------------------- sidebar_filters called on any series
\* Length of the series of the example, and its window in minutes.
ExampleLen == 10
ExampleWindow == 20

\* Timestamps of the hand-made series: the newest instant, and instants on
\* and one second before window boundaries.
Newest == 2 * Day + 5 * Hour + 7 * Minute

TsSet ==
    {Newest, Newest - 20 * Minute, Newest - 30 * Minute - 1,
     Newest - 180 * Minute, Newest - 360 * Minute, Newest - 360 * Minute - 1}

\* A row with index label i - 1 whose readings tell the rows apart.
hand_row(i, ts) ==
    [index |-> i - 1,
     timestamp |-> ts,
     depth_m |-> (100 + 10 * i) * Scale,
     temperature_c |-> (4 + i) * Scale,
     pressure_kpa |-> (130 + 13 * i) * Scale,
     power_pct |-> (70 + i) * Scale,
     heading_deg |-> (180 + i) * Scale,
     speed_knots |-> 2 * Scale + i]

\* Every series of 1..MaxLen rows with timestamps of TsSet, in any order.
HandSeries ==
    UNION {{[i \in 1..n |-> hand_row(i, ts[i])] : ts \in [1..n -> TsSet]} : n \in 1..MaxLen}

\* A generated series of ExampleLen samples, 5 minutes apart.
ExampleSeries ==
    sample_data(ExampleLen, Newest, CHOOSE noise \in RenderNoise(ExampleLen) : TRUE)

\* The windows of time_options, a window of zero and the example's window.
Windows == {time_options[s] : s \in TimeRanges} \cup {0, ExampleWindow}

InitFilter ==
    /\ NothingShown
    /\ filtered_df = "None"
    /\ pc = "filter"
    /\ now = Newest
    /\ \E df \in HandSeries \cup {ExampleSeries} :
          /\ frames = [o \in ObjIds |-> IF o = "df0" THEN df ELSE <<>>]
          /\ num_records = Len(df)
    /\ telemetry_df = "df0"
    /\ minutes \in Windows

\* filtered_df = sidebar_filters(telemetry_df) with the window given.
filter_with_window ==
    /\ pc = "filter"
    /\ filter_call(minutes)
    /\ pc' = "overview"
    /\ UNCHANGED <<num_records, now, selection, telemetry_df, formatted_df, metrics,
                   charts, gauge, polar, table, error, minutes2, refiltered>>

\* sidebar_filters(filtered_df), with any window, on the result of the first call.
filter_again ==
    /\ pc = "overview"
    /\ \E m \in Windows :
          /\ minutes2' = m
          /\ refiltered' = filtered_rows(frames[filtered_df], m)
    /\ pc' = "refiltered"
    /\ UNCHANGED <<num_records, now, selection, minutes, frames, telemetry_df, filtered_df,
                   formatted_df, metrics, charts, gauge, polar, table, error>>

NextFilter ==
    \/ filter_with_window
    \/ filter_again
    \/ mission_overview
    \/ plot_timeseries
    \/ engineering_panel
    \/ telemetry_table

SpecFilter == InitFilter /\ [][NextFilter]_vars

\* ================================================================ claims
Telemetry == frames[telemetry_df]

Filtered == frames[filtered_df]

\* The filter has returned.
HasFiltered == filtered_df # "None"

Timestamps(df) == {df[i].timestamp : i \in DOMAIN df}

IsNewest(t, df) == t \in Timestamps(df) /\ \A u \in Timestamps(df) : u <= t

Ascending(df) == \A i \in 1..(Len(df) - 1) : df[i].timestamp <= df[i + 1].timestamp

\* Number of rows of sub equal to row.
Occurrences(row, sub) == Cardinality({j \in DOMAIN sub : sub[j] = row})

\* C1: with a numeric window W (0 included) on a non-empty series,
\* sidebar_filters returns exactly the samples whose timestamp is at least
\* the newest timestamp minus W minutes: each of them once, no other, in the
\* order of the input; W = 0 leaves the samples at the newest timestamp, and
\* the example's ten samples 5 minutes apart keep their last 5 under the
\* 20-minute window.
C1_WindowSelectsExactly ==
    (HasFiltered /\ minutes # NoWindow) =>
        \E t \in Timestamps(Telemetry) :
            /\ IsNewest(t, Telemetry)
            /\ \A i \in DOMAIN Telemetry :
                  Occurrences(Telemetry[i], Filtered) =
                      IF Telemetry[i].timestamp >= t - minutes * 60 THEN 1 ELSE 0
            /\ \A j \in DOMAIN Filtered : \E i \in DOMAIN Telemetry : Filtered[j] = Telemetry[i]
            /\ \A j \in DOMAIN Filtered : \A k \in DOMAIN Filtered :
                  j < k => Filtered[j].index < Filtered[k].index
            /\ minutes = 0 => \A j \in DOMAIN Filtered : Filtered[j].timestamp = t
            /\ (Telemetry = ExampleSeries /\ minutes = ExampleWindow) =>
                  Filtered = SubSeq(Telemetry, Len(Telemetry) - 4, Len(Telemetry))

\* The example's window has cut the example's series to its last 5 samples.
C1_Witness ==
    /\ pc = "overview"
    /\ Telemetry = ExampleSeries
    /\ minutes = ExampleWindow
    /\ Len(Filtered) = 5
    /\ Len(Telemetry) > 5

\* C2: for N >= 1 the generated series has exactly N samples, consecutive
\* timestamps exactly 5 minutes apart and ascending, the last one equal to
\* the instant T of the call and the first to T - 5 * (N - 1) minutes.
C2_GeneratedTimestamps ==
    (num_records >= 1 /\ pc = "filter") =>
        /\ Len(Telemetry) = num_records
        /\ \A i \in 1..(num_records - 1) :
              /\ Telemetry[i].timestamp < Telemetry[i + 1].timestamp
              /\ Telemetry[i + 1].timestamp - Telemetry[i].timestamp = 5 * 60
        /\ Telemetry[num_records].timestamp = now
        /\ Telemetry[1].timestamp = now - 5 * (num_records - 1) * 60

\* A series of three samples or more has been generated.
C2_Witness == pc = "filter" /\ num_records >= 3 /\ Len(Telemetry) >= 3

\* C3: when the filtered series handed to mission_overview has fewer than
\* two samples, mission_overview does not raise.
C3_NoRaiseBelowTwoSamples ==
    (HasFiltered /\ Len(Filtered) < 2 /\ pc \notin {"filter", "overview"}) => error = "None"

Wider(w2, w1) == w2 = NoWindow \/ (w1 # NoWindow /\ w2 >= w1)

\* C4: filtering the result of a filter again, with the same or a wider
\* window ("All data" the widest), returns that result unchanged.
C4_Idempotent ==
    (pc = "refiltered" /\ Wider(minutes2, minutes)) => refiltered = Filtered

\* The first filter dropped samples and a wider numeric window was applied
\* to what it left.
C4_Witness ==
    /\ pc = "refiltered"
    /\ minutes = 30
    /\ minutes2 = 180
    /\ Len(Filtered) >= 2
    /\ Len(Filtered) < Len(Telemetry)

\* The span between the oldest and the newest timestamp fits in m minutes.
SpanWithin(df, m) ==
    \A t \in Timestamps(df) : \A u \in Timestamps(df) : t - u <= m * 60

\* C5: sidebar_filters returns the whole input, every sample in the same
\* order, when the selection is "All data" or the window is at least as
\* long as the span of the series.
C5_FullSeries ==
    (HasFiltered /\ (minutes = NoWindow \/ SpanWithin(Telemetry, minutes))) =>
        Filtered = Telemetry

\* A numeric window exactly as long as the span of a series of several samples.
C5_Witness ==
    /\ HasFiltered
    /\ minutes = 360
    /\ Len(Telemetry) >= 2
    /\ SpanWithin(Telemetry, 360)
    /\ ~SpanWithin(Telemetry, 180)
    /\ Len(Filtered) = Len(Telemetry)

\* C6: every generated sample has power_pct in [60, 95], speed_knots in
\* [1.0, 3.5] and heading_deg in [0, 360), 360 excluded, whatever the draws.
C6_FieldRanges ==
    pc = "filter" =>
        \A i \in DOMAIN Telemetry :
            /\ 60 * Scale <= Telemetry[i].power_pct
            /\ Telemetry[i].power_pct <= 95 * Scale
            /\ 2 * Scale <= 2 * Telemetry[i].speed_knots
            /\ 2 * Telemetry[i].speed_knots <= 7 * Scale
            /\ 0 <= Telemetry[i].heading_deg
            /\ Telemetry[i].heading_deg < 360 * Scale

\* C7 as stated: generation never fails for N >= 1, and N = 1 and N = 0
\* both give a series of exactly one sample.
C7_SingleSampleForZero ==
    /\ (num_records >= 1 /\ pc # "generate") => error = "None"
    /\ (num_records \in {0, 1} /\ pc # "generate") =>
          (error = "None" /\ Len(frames["df0"]) = 1)

\* C7 amended: generation never fails for N >= 0 and returns exactly N
\* samples: one for N = 1, none (an empty series) for N = 0.
C7_ZeroGivesEmptySeries ==
    /\ (num_records >= 1 /\ pc # "generate") => error = "None"
    /\ (num_records \in {0, 1} /\ pc # "generate") =>
          (error = "None" /\ telemetry_df = "df0" /\ Len(frames["df0"]) = num_records)

\* The generator has returned for N = 0.
C7_Witness == pc = "filter" /\ num_records = 0 /\ telemetry_df = "df0"

\* C8: once generated, the series is never changed within the pass: every
\* call after the generation (sidebar_filters, mission_overview,
\* plot_timeseries, engineering_panel, telemetry_table) leaves the generated
\* frame, and the filtered frame once it exists, the same object with the
\* same rows; the generated frame is bound only by the generation.
C8_SeriesUnchanged ==
    [][(pc # "generate" /\ pc' # "generate" /\ telemetry_df # "None") =>
          /\ telemetry_df' = telemetry_df
          /\ frames'[telemetry_df] = frames[telemetry_df]
          /\ HasFiltered =>
                /\ filtered_df' = filtered_df
                /\ frames'[filtered_df] = frames[filtered_df]]_vars

\* telemetry_table has formatted a copy of a filtered frame that is the
\* generated frame itself ("All data"), with timestamps off the minute.
C8_Witness ==
    /\ pc = "done"
    /\ filtered_df = telemetry_df
    /\ formatted_df = "df2"
    /\ Len(table) >= 2
    /\ Telemetry[1].timestamp % 60 # 0

ShippedRows ==
    [s \in TimeRanges |->
        CASE s = "Last 30 minutes" -> 7
          [] s = "Last 1 hour" -> 13
          [] s = "Last 3 hours" -> 37
          [] s = "Last 6 hours" -> 73
          [] s = "All data" -> 120]

\* C9: with the default 120 samples the pass never raises and, whatever the
\* selections made, the filtered series has the 7, 13, 37, 73 or 120
\* samples of the selected range, at least two.
C9_ShippedHasTwoSamples ==
    /\ error = "None"
    /\ pc # "raised"
    /\ HasFiltered => (Len(Filtered) = ShippedRows[selection] /\ Len(Filtered) >= 2)

\* A pass has completed after the selection was changed to the shortest range.
C9_Witness ==
    /\ pc = "done"
    /\ selection = "Last 30 minutes"
    /\ Len(Filtered) = 7
    /\ Len(table) = 7

\* C10: on a non-empty series in ascending timestamp order the result of
\* sidebar_filters, for every window, is a non-empty contiguous suffix of
\* the input ending with the input's last sample; the latest values
\* mission_overview displays and the value of the power gauge are those of
\* that sample.
C10_SuffixKeepsNewest ==
    (HasFiltered /\ Ascending(Telemetry)) =>
        /\ Len(Filtered) >= 1
        /\ Len(Filtered) <= Len(Telemetry)
        /\ Filtered = SubSeq(Telemetry, Len(Telemetry) - Len(Filtered) + 1, Len(Telemetry))
        /\ Filtered[Len(Filtered)] = Telemetry[Len(Telemetry)]
        /\ (pc \in {"plot", "panel", "table", "done"}) =>
              /\ metrics.values.depth = fmt(Telemetry[Len(Telemetry)].depth_m, 0)
              /\ metrics.values.temperature = fmt(Telemetry[Len(Telemetry)].temperature_c, 1)
              /\ metrics.values.pressure = fmt(Telemetry[Len(Telemetry)].pressure_kpa, 0)
              /\ metrics.values.power = fmt(Telemetry[Len(Telemetry)].power_pct, 0)
        /\ (pc \in {"table", "done"}) => gauge = Telemetry[Len(Telemetry)].power_pct

\* The filter cut an ascending series to a proper suffix of two samples or
\* more, and the overview and the gauge have been displayed.
C10_Witness ==
    /\ pc = "table"
    /\ Ascending(Telemetry)
    /\ Len(Filtered) >= 2
    /\ Len(Filtered) < Len(Telemetry)
    /\ gauge = Telemetry[Len(Telemetry)].power_pct

=============================================================================
